---- MODULE Spec2Model ----
(***************************************************************************)
(* Interaction state machine of the Torestech landing page                 *)
(* (src/app/page.tsx, component TorestechWebsite, and the ThemeProvider    *)
(* configured in src/app/layout.tsx).                                      *)
(*                                                                         *)
(* The browser is single threaded: every action below is one task of the   *)
(* event loop (a click handler, the scroll listener, the intersection      *)
(* observer callback, one interval-timer callback, the effect set-up and   *)
(* clean-up).  React commits the state updates of a handler before the     *)
(* task ends, so a handler reads the committed state; only handlers that   *)
(* a script calls one after the other within one task run without a render *)
(* in between (menuButtonOnClick, render).                                 *)
(***************************************************************************)
EXTENDS Integers, Naturals, Sequences, FiniteSets, TLC

(***************************************************************************)
(* Bounds of the model.                                                    *)
(*   MaxTimers      cap on the interval timers alive at once when all      *)
(*                  page events are enabled and under fair timers (one     *)
(*                  run of four timers)                                    *)
(*   MaxTimersAnim  the same cap for the animation-only specification      *)
(*                  (two overlapping runs)                                 *)
(***************************************************************************)
MaxTimers == 4
MaxTimersAnim == 8

(***************************************************************************)
(* JavaScript numbers.  `current`, `increment` and `target` are IEEE-754   *)
(* binary64 values.  Every value the animation computes lies in            *)
(* [2^-4, 2^8) or is 0, so it is a multiple of 2^-56 below 2^8: it is      *)
(* represented exactly by the 64-bit integer value * 2^56, held as four    *)
(* limbs <<l1, l2, l3, l4>> in base 2^16, most significant first.          *)
(* The results of + and / are rounded to 53 significant bits, ties to      *)
(* even, as the hardware does.                                             *)
(***************************************************************************)
Base == 65536
Precision == 53

Zero == <<0, 0, 0, 0>>

\* the double of a small non-negative integer n (n < 2^8)
FromInt(n) == <<n * 256, 0, 0, 0>>

\* Math.floor(x): the integer part, value * 2^56 \div 2^56
Floor(x) == x[1] \div 256

\* x >= y on doubles
GreaterEq(x, y) ==
    \/ x[1] > y[1]
    \/ x[1] = y[1] /\ x[2] > y[2]
    \/ x[1] = y[1] /\ x[2] = y[2] /\ x[3] > y[3]
    \/ x[1] = y[1] /\ x[2] = y[2] /\ x[3] = y[3] /\ x[4] >= y[4]

\* exact sum of two limb vectors (no overflow below 2^8)
AddLimbs(x, y) ==
    LET s4 == x[4] + y[4]
        s3 == x[3] + y[3] + (s4 \div Base)
        s2 == x[2] + y[2] + (s3 \div Base)
        s1 == x[1] + y[1] + (s2 \div Base)
    IN  <<s1, s2 % Base, s3 % Base, s4 % Base>>

\* floor(log2(a)) for 1 <= a < 2^16
Log2Floor(a) == CHOOSE e \in 0..15 : 2^e <= a /\ a < 2^(e + 1)

\* Round the exact value (s + ext / 2^16 + a non-zero rest if sticky) to the
\* nearest double, ties to even.  The leading bit of s is bit
\* Log2Floor(s[1]) + 48, so the unit in the last place of the result is
\* bit Log2Floor(s[1]) + 48 - (Precision - 1), which lies in the last limb.
RoundToDouble(s, ext, sticky) ==
    IF s[1] < 16 THEN s
    ELSE LET u    == 2^(Log2Floor(s[1]) + 48 - (Precision - 1))
             tail == (s[4] % u) * Base + ext
             half == u * (Base \div 2)
             kept == <<s[1], s[2], s[3], s[4] - (s[4] % u)>>
             up   == \/ tail > half
                     \/ tail = half /\ (sticky \/ (s[4] \div u) % 2 = 1)
         IN  IF up THEN AddLimbs(kept, <<0, 0, 0, u>>) ELSE kept

\* x + y on doubles
FAdd(x, y) == RoundToDouble(AddLimbs(x, y), 0, FALSE)

\* t / d on doubles, for integers 0 < t < 2^8 and d > 0: long division of
\* t * 2^56 by d, one limb further than the result, then rounding
FDiv(t, d) ==
    LET c1 == t * 256
        c2 == (c1 % d) * Base
        c3 == (c2 % d) * Base
        c4 == (c3 % d) * Base
        c5 == (c4 % d) * Base
    IN  RoundToDouble(<<c1 \div d, c2 \div d, c3 \div d, c4 \div d>>,
                      c5 \div d, c5 % d # 0)

(***************************************************************************)
(* The statistics counters                                                 *)
(***************************************************************************)
Keys == <<"projects", "clients", "years", "hours">>
KeySet == {Keys[i] : i \in 1..Len(Keys)}

targets == [projects |-> 150, clients |-> 99, years |-> 5, hours |-> 24]
steps == 60

\* const increment = target / steps, for each key
increment == [key \in KeySet |-> FDiv(targets[key], steps)]

\* the section identifiers the navigation buttons pass, and one identifier
\* that no element of the document carries
Elements == {"hero", "services", "about", "contact", "stats-section"}
SectionIds == {"hero", "services", "about", "contact", "pricing"}

\* window.scrollY values delivered to the scroll listener, and the offsets
\* a page can be loaded at
Offsets == {0, 150, 280, 300, 320}
InitialOffsets == {0, 320}

\* the scroll scenario of the specification, followed by scenarioPos
Scenario == <<0, 150, 320, 280>>

\* visible share of the stats section, in percent, reported by the observer;
\* FullRatios leaves out partial visibility below the threshold
Ratios == {0, 30, 60}
FullRatios == {0, 60}
threshold == 50

Themes == {"system", "light", "dark"}

VARIABLES
    phase,             \* "rendered" (effects not yet run), "mounted",
                       \* "unmounted"
    theme,             \* the preference held by next-themes (useTheme().theme)
    isMobileMenuOpen,  \* useState(false)
    showWhatsApp,      \* useState(false)
    animatedStats,     \* useState({projects: 0, clients: 0, years: 0,
                       \* hours: 0})
    scrollY,           \* window.scrollY
    scrollTarget,      \* element last passed to scrollIntoView, "none" before
    lastNav,           \* history: sectionId of the last scrollToSection call
    scrollListener,    \* handleScroll is registered on window
    observing,         \* the IntersectionObserver observes #stats-section
    timers,            \* live interval timers in firing order; each holds its
                       \* closure: key, current, and n = callbacks run so far
    crashed,           \* an event handler or effect threw
    triggered,         \* history: animateStats has been called
    themeLog,          \* history: theme before and after the last two toggles
    scenarioPos,       \* history: scroll events handled since mount while they
                       \* follow Scenario (0 = none yet, -1 = another sequence)
    observerSupported, \* the browser defines IntersectionObserver
    systemDark,        \* the system appearance next-themes resolves "system" to
    renderedMenuOpen,  \* isMobileMenuOpen as captured by the onClick closure
                       \* of the last render
    clicksOdd,         \* history: parity of the menu-button clicks since mount
                       \* or the last navigation
    seenHalf,          \* history: an entry with a visible share of at least
                       \* the threshold has been delivered
    overlapped,        \* history: animateStats was called while timers of an
                       \* earlier call were alive
    throttledY,        \* a second copy of the scroll listener behind a throttle
    throttledShow,     \* that drops events: its last offset (-1 = none) and
                       \* its showWhatsApp
    throttleDropped    \* history: the throttle has dropped an event since mount

env == <<observerSupported, systemDark>>
menuView == <<renderedMenuOpen, clicksOdd>>
obsHistory == <<seenHalf, overlapped>>
throttle == <<throttledY, throttledShow, throttleDropped>>

vars == <<phase, theme, isMobileMenuOpen, showWhatsApp, animatedStats, scrollY,
          scrollTarget, lastNav, scrollListener, observing, timers, crashed,
          triggered, themeLog, scenarioPos, env, menuView, obsHistory,
          throttle>>

\* what useState is initialised with
InitialStats == [k \in KeySet |-> 0]

Init ==
    /\ phase = "rendered"
    /\ theme \in Themes
    /\ isMobileMenuOpen = FALSE
    /\ showWhatsApp = FALSE
    /\ animatedStats = InitialStats
    /\ scrollY \in InitialOffsets
    /\ scrollTarget = "none"
    /\ lastNav = "none"
    /\ scrollListener = FALSE
    /\ observing = FALSE
    /\ timers = <<>>
    /\ crashed = FALSE
    /\ triggered = FALSE
    /\ themeLog = <<theme>>
    /\ scenarioPos = 0
    /\ observerSupported \in BOOLEAN
    /\ systemDark \in BOOLEAN
    /\ renderedMenuOpen = isMobileMenuOpen
    /\ clicksOdd = FALSE
    /\ seenHalf = FALSE
    /\ overlapped = FALSE
    /\ throttledY = -1
    /\ throttledShow = FALSE
    /\ throttleDropped = FALSE

(***************************************************************************)
(* Effects: set-up after the first commit, clean-up on unmount             *)
(***************************************************************************)
\* variant of Mount: the effect also evaluates the scroll offset once when
\* it registers the listener
MountWithInitialCheck ==
    /\ phase = "rendered"
    /\ observerSupported
    /\ phase' = "mounted"
    /\ scrollListener' = TRUE
    /\ observing' = ("stats-section" \in Elements)
    /\ showWhatsApp' = (scrollY > 300)
    /\ UNCHANGED <<theme, isMobileMenuOpen, animatedStats, scrollY,
                   scrollTarget, lastNav, timers, crashed, triggered,
                   themeLog, scenarioPos, env, menuView, obsHistory,
                   throttle>>

\* The two effects run in order.  `new IntersectionObserver(..)` is not
\* guarded: where the browser does not define it the second effect throws a
\* ReferenceError, React unmounts the tree and runs the clean-up of the first
\* effect.
Mount ==
    /\ phase = "rendered"
    /\ IF observerSupported
       THEN /\ phase' = "mounted"
            /\ scrollListener' = TRUE  \* window.addEventListener("scroll", ..)
            /\ observing' = ("stats-section" \in Elements) \* observer.observe
            /\ UNCHANGED crashed
       ELSE /\ phase' = "unmounted"
            /\ scrollListener' = FALSE
            /\ observing' = FALSE
            /\ crashed' = TRUE
    /\ UNCHANGED <<theme, isMobileMenuOpen, showWhatsApp, animatedStats,
                   scrollY, scrollTarget, lastNav, timers, triggered,
                   themeLog, scenarioPos, env, menuView, obsHistory,
                   throttle>>

\* The two clean-ups run; no clean-up clears the interval timers.  React
\* drops the hook state of the instance: the variables return to what a new
\* instance is constructed with.
Unmount ==
    /\ phase = "mounted"
    /\ phase' = "unmounted"
    /\ scrollListener' = FALSE         \* window.removeEventListener
    /\ observing' = FALSE              \* observer.disconnect()
    /\ isMobileMenuOpen' = FALSE
    /\ showWhatsApp' = FALSE
    /\ animatedStats' = InitialStats
    /\ scenarioPos' = 0
    /\ lastNav' = "none"
    /\ renderedMenuOpen' = FALSE
    /\ clicksOdd' = FALSE
    /\ throttledY' = -1
    /\ throttledShow' = FALSE
    /\ throttleDropped' = FALSE
    /\ UNCHANGED <<theme, scrollY, scrollTarget, timers, crashed, triggered,
                   themeLog, env, obsHistory>>

(***************************************************************************)
(* Theme, navigation, scroll                                               *)
(***************************************************************************)
\* variants of nextTheme: a toggle that only ever switches dark mode on, and
\* a three-way cycle light -> dark -> system
nextThemeAlwaysDark(t) == "dark"
nextThemeCycle(t) ==
    IF t = "light" THEN "dark" ELSE IF t = "dark" THEN "system" ELSE "light"

\* variant of nextTheme: the comparison made on the resolved appearance
\* (resolvedTheme) instead of the stored preference
nextThemeResolved(t) ==
    IF t = "dark" \/ (t = "system" /\ systemDark) THEN "light" ELSE "dark"

\* theme === "dark" ? "light" : "dark"
nextTheme(t) == IF t = "dark" THEN "light" ELSE "dark"

\* setTheme(theme === "dark" ? "light" : "dark")
toggleDarkMode ==
    /\ phase = "mounted"
    /\ theme' = nextTheme(theme)
    /\ themeLog' = (IF Len(themeLog) < 3 THEN Append(themeLog, theme')
                    ELSE Append(Tail(themeLog), theme'))
    /\ UNCHANGED <<phase, isMobileMenuOpen, showWhatsApp, animatedStats,
                   scrollY, scrollTarget, lastNav, scrollListener, observing,
                   timers, crashed, triggered, scenarioPos, env, menuView,
                   obsHistory, throttle>>

\* onClick={() => setIsMobileMenuOpen(!isMobileMenuOpen)}: the handler
\* negates the value its closure captured at the last render, not the
\* pending state
menuButtonOnClick ==
    /\ phase = "mounted"
    /\ isMobileMenuOpen' = ~renderedMenuOpen
    /\ clicksOdd' = ~clicksOdd
    /\ UNCHANGED <<phase, theme, showWhatsApp, animatedStats, scrollY,
                   scrollTarget, lastNav, scrollListener, observing, timers,
                   crashed, triggered, themeLog, scenarioPos, env,
                   renderedMenuOpen, obsHistory, throttle>>

\* React renders the component again with the state it holds; the onClick
\* closure of this render captures the new isMobileMenuOpen
render ==
    /\ phase = "mounted"
    /\ renderedMenuOpen # isMobileMenuOpen
    /\ renderedMenuOpen' = isMobileMenuOpen
    /\ UNCHANGED <<phase, theme, isMobileMenuOpen, showWhatsApp,
                   animatedStats, scrollY, scrollTarget, lastNav,
                   scrollListener, observing, timers, crashed, triggered,
                   themeLog, scenarioPos, env, clicksOdd, obsHistory,
                   throttle>>

\* A click of the user on the menu button: the click is a task of its own,
\* and React renders the update of a click before the task ends, so the
\* handler always runs with the closure of the current state.
toggleMobileMenu ==
    /\ phase = "mounted"
    /\ isMobileMenuOpen' = ~renderedMenuOpen
    /\ renderedMenuOpen' = isMobileMenuOpen'
    /\ clicksOdd' = ~clicksOdd
    /\ UNCHANGED <<phase, theme, showWhatsApp, animatedStats, scrollY,
                   scrollTarget, lastNav, scrollListener, observing, timers,
                   crashed, triggered, themeLog, scenarioPos, env,
                   obsHistory, throttle>>

\* variant of scrollToSection: the optional chaining left out, so a missing
\* element throws before the menu is closed
scrollToSectionUnguarded(sectionId) ==
    /\ phase = "mounted"
    /\ lastNav' = sectionId
    /\ IF sectionId \in Elements
       THEN /\ scrollTarget' = sectionId
            /\ isMobileMenuOpen' = FALSE
            /\ renderedMenuOpen' = FALSE
            /\ clicksOdd' = FALSE
            /\ UNCHANGED crashed
       ELSE /\ crashed' = TRUE
            /\ UNCHANGED <<scrollTarget, isMobileMenuOpen, menuView>>
    /\ UNCHANGED <<phase, theme, showWhatsApp, animatedStats, scrollY,
                   scrollListener, observing, timers, triggered, themeLog,
                   scenarioPos, env, obsHistory, throttle>>

\* document.getElementById(sectionId)?.scrollIntoView(..)
\* setIsMobileMenuOpen(false)
scrollToSection(sectionId) ==
    /\ phase = "mounted"
    /\ scrollTarget' = (IF sectionId \in Elements THEN sectionId
                        ELSE scrollTarget)
    /\ isMobileMenuOpen' = FALSE
    /\ renderedMenuOpen' = FALSE
    /\ clicksOdd' = FALSE
    /\ lastNav' = sectionId
    /\ UNCHANGED <<phase, theme, showWhatsApp, animatedStats, scrollY,
                   scrollListener, observing, timers, crashed, triggered,
                   themeLog, scenarioPos, env, obsHistory, throttle>>

\* variant of aboveThreshold: the comparison made inclusive
aboveThresholdInclusive(y) == y >= 300

\* window.scrollY > 300
aboveThreshold(y) == y > 300

\* variant of setShowWhatsApp: an updater that keeps the button once shown
setShowWhatsAppSticky(prev, y) == prev \/ aboveThreshold(y)

\* setShowWhatsApp(window.scrollY > 300): the state after the call, from the
\* state before (which a plain value, not an updater, ignores)
setShowWhatsApp(prev, y) == aboveThreshold(y)

\* what a scroll event at offset y does to the page
scrollEvent(y) ==
    /\ scrollListener
    /\ scrollY' = y
    /\ showWhatsApp' = setShowWhatsApp(showWhatsApp, y)
    /\ scenarioPos' = (IF /\ scenarioPos >= 0
                          /\ scenarioPos < Len(Scenario)
                          /\ y = Scenario[scenarioPos + 1]
                       THEN scenarioPos + 1 ELSE -1)
    /\ UNCHANGED <<phase, theme, isMobileMenuOpen, animatedStats,
                   scrollTarget, lastNav, scrollListener, observing, timers,
                   crashed, triggered, themeLog, env, menuView, obsHistory>>

\* a scroll event at offset y: setShowWhatsApp(window.scrollY > 300)
handleScroll(y) == scrollEvent(y) /\ UNCHANGED throttle

\* the same event when a second copy of the listener sits behind a throttle:
\* the copy comes to run for this event, or the throttle drops it
throttledScroll(y) ==
    \E delivered \in BOOLEAN :
        /\ scrollEvent(y)
        /\ IF delivered
           THEN /\ throttledY' = y
                /\ throttledShow' = setShowWhatsApp(throttledShow, y)
                /\ UNCHANGED throttleDropped
           ELSE /\ throttleDropped' = TRUE
                /\ UNCHANGED <<throttledY, throttledShow>>

(***************************************************************************)
(* Counter animation                                                       *)
(***************************************************************************)
\* Object.keys(targets).forEach: one timer per key, in key order, each with
\* let current = 0
NewTimers ==
    [i \in 1..Len(Keys) |-> [key |-> Keys[i], current |-> Zero, n |-> 0]]

animateStats(ts) == ts \o NewTimers

\* entry.isIntersecting for a visible share r: true from the threshold on,
\* false for no intersection; below the threshold browsers differ
IsIntersecting(r) ==
    IF r >= threshold THEN {TRUE} ELSE IF r = 0 THEN {FALSE} ELSE {TRUE, FALSE}

\* the observer callback with one entry, whose visible share is one of
\* `ratios`
observerCallback(cap, ratios) ==
    \E r \in ratios : \E isIntersecting \in IsIntersecting(r) :
        /\ observing
        /\ seenHalf' = (seenHalf \/ r >= threshold)
        /\ IF isIntersecting
           THEN /\ Len(timers) + Len(Keys) <= cap
                /\ timers' = animateStats(timers)
                /\ triggered' = TRUE
                /\ overlapped' = (overlapped \/ timers # <<>>)
           ELSE UNCHANGED <<timers, triggered, overlapped>>
        /\ UNCHANGED <<phase, theme, isMobileMenuOpen, showWhatsApp,
                       animatedStats, scrollY, scrollTarget, lastNav,
                       scrollListener, observing, crashed, themeLog,
                       scenarioPos, env, menuView, throttle>>

\* variant of reached: the clamp left out, the timer never stops
reachedNever(sum, target) == FALSE

\* if (current >= target)
reached(sum, target) == GreaterEq(sum, target)

\* variant of timerTick: the update spreads the animatedStats captured by
\* the first render instead of the updater's prev
timerTickStale ==
    /\ timers # <<>>
    /\ LET t       == Head(timers)
           target  == FromInt(targets[t.key])
           sum     == FAdd(t.current, increment[t.key])
           clamped == reached(sum, target)
           current == IF clamped THEN target ELSE sum
       IN  /\ timers' = (IF clamped THEN Tail(timers)
                         ELSE Append(Tail(timers),
                                     [t EXCEPT !.current = current,
                                               !.n = t.n + 1]))
           /\ animatedStats' =
                 (IF phase = "mounted"
                  THEN [InitialStats EXCEPT ![t.key] = Floor(current)]
                  ELSE animatedStats)
    /\ UNCHANGED <<phase, theme, isMobileMenuOpen, showWhatsApp, scrollY,
                   scrollTarget, lastNav, scrollListener, observing, crashed,
                   triggered, themeLog, scenarioPos, env, menuView,
                   obsHistory, throttle>>

\* variant of timerTick: the callback clamps but never calls clearInterval
timerTickNoClear ==
    /\ timers # <<>>
    /\ LET t       == Head(timers)
           target  == FromInt(targets[t.key])
           sum     == FAdd(t.current, increment[t.key])
           clamped == reached(sum, target)
           current == IF clamped THEN target ELSE sum
       IN  /\ timers' = Append(Tail(timers),
                               [t EXCEPT !.current = current,
                                         !.n = IF clamped THEN t.n
                                               ELSE t.n + 1])
           /\ animatedStats' =
                 (IF phase = "mounted"
                  THEN [animatedStats EXCEPT ![t.key] = Floor(current)]
                  ELSE animatedStats)
    /\ UNCHANGED <<phase, theme, isMobileMenuOpen, showWhatsApp, scrollY,
                   scrollTarget, lastNav, scrollListener, observing, crashed,
                   triggered, themeLog, scenarioPos, env, menuView,
                   obsHistory, throttle>>

\* One callback of the interval timer that is due first.  All timers have
\* the same delay, so they fire in the order they were (re)scheduled.
\* setAnimatedStats on an unmounted instance is dropped by React.
timerTick ==
    /\ timers # <<>>
    /\ LET t       == Head(timers)
           target  == FromInt(targets[t.key])
           sum     == FAdd(t.current, increment[t.key])
           clamped == reached(sum, target)
           current == IF clamped THEN target ELSE sum
       IN  /\ timers' = (IF clamped THEN Tail(timers)      \* clearInterval
                         ELSE Append(Tail(timers),
                                     [t EXCEPT !.current = current,
                                               !.n = t.n + 1]))
           /\ animatedStats' =
                 (IF phase = "mounted"
                  THEN [animatedStats EXCEPT ![t.key] = Floor(current)]
                  ELSE animatedStats)
    /\ UNCHANGED <<phase, theme, isMobileMenuOpen, showWhatsApp, scrollY,
                   scrollTarget, lastNav, scrollListener, observing, crashed,
                   triggered, themeLog, scenarioPos, env, menuView,
                   obsHistory, throttle>>

(***************************************************************************)
(* Specifications                                                          *)
(***************************************************************************)
Next ==
    \/ Mount
    \/ Unmount
    \/ toggleDarkMode
    \/ toggleMobileMenu
    \/ \E id \in SectionIds : scrollToSection(id)
    \/ \E y \in Offsets : handleScroll(y)
    \/ observerCallback(MaxTimers, FullRatios)
    \/ timerTick

\* a first visit: no stored preference (defaultTheme="system"), loaded at
\* the top of the page
InitPage == Init /\ theme = "system" /\ scrollY = 0 /\ ~systemDark

\* every event of the page, one animation run at a time, the stats section
\* out of view or visible beyond the threshold
Spec == InitPage /\ [][Next]_vars

\* the animation alone, with overlapping runs and every visible share
NextAnim ==
    \/ Mount
    \/ Unmount
    \/ observerCallback(MaxTimersAnim, Ratios)
    \/ timerTick

SpecAnim == InitPage /\ [][NextAnim]_vars

\* the click and scroll handlers alone, from every stored preference and
\* load offset, on a page whose stats section never comes into view
NextUI ==
    \/ Mount
    \/ Unmount
    \/ toggleDarkMode
    \/ toggleMobileMenu
    \/ \E id \in SectionIds : scrollToSection(id)
    \/ \E y \in Offsets : handleScroll(y)

SpecUI == Init /\ [][NextUI]_vars

\* the animation, one run at a time, with the timer callbacks delivered
\* fairly: the event loop runs a due interval callback as long as the
\* document lives
NextAnimFair ==
    \/ Mount
    \/ Unmount
    \/ observerCallback(MaxTimers, Ratios)
    \/ timerTick

SpecAnimFair == InitPage /\ [][NextAnimFair]_vars /\ WF_vars(timerTick)

\* the scroll listener and its throttled copy
NextThrottle ==
    \/ Mount
    \/ Unmount
    \/ \E y \in Offsets : throttledScroll(y)

SpecThrottle == Init /\ [][NextThrottle]_vars

\* the menu button when clicks can also be dispatched one after the other
\* within one task (element.click() from a script), before React renders
NextMenu ==
    \/ Mount
    \/ Unmount
    \/ menuButtonOnClick
    \/ render
    \/ toggleDarkMode
    \/ \E y \in Offsets : handleScroll(y)

SpecMenu == Init /\ [][NextMenu]_vars

TypeOK ==
    /\ phase \in {"rendered", "mounted", "unmounted"}
    /\ theme \in Themes
    /\ isMobileMenuOpen \in BOOLEAN
    /\ showWhatsApp \in BOOLEAN
    /\ \A k \in KeySet : animatedStats[k] \in Nat
    /\ scrollY \in Offsets
    /\ scrollTarget \in Elements \cup {"none"}
    /\ lastNav \in SectionIds \cup {"none"}
    /\ crashed \in BOOLEAN
    /\ renderedMenuOpen \in BOOLEAN
    /\ throttledY \in Offsets \cup {-1}
    /\ throttledShow \in BOOLEAN
    /\ throttleDropped \in BOOLEAN

(***************************************************************************)
(* Properties                                                              *)
(***************************************************************************)
TargetStats == [k \in KeySet |-> targets[k]]

\* C1: the animation starts at most once per page session: once animateStats
\* has been called, no later step (in particular no later observer callback
\* with isIntersecting true) creates another interval timer.
C1_StartsOnce == [][triggered => Len(timers') <= Len(timers)]_vars

\* C2: while the page is mounted every counter's displayed value never
\* decreases, is 0 until the animation is triggered, and equals its target
\* once the animation has been triggered and every timer has stopped.
C2_MonotoneToTarget ==
    [][phase' = "mounted" =>
          /\ \A k \in KeySet : animatedStats'[k] >= animatedStats[k]
          /\ ~triggered' => animatedStats' = InitialStats
          /\ (triggered' /\ timers' = <<>>) =>
                animatedStats' = TargetStats]_vars

\* C3: in every reachable state each displayed counter is an integer between
\* 0 and its target (150, 99, 5, 24).
C3_WithinTarget ==
    \A k \in KeySet : animatedStats[k] \in 0..targets[k]

\* C3 witness: a run has ticked to its end and all four counters show their
\* targets
C3_Witness ==
    /\ triggered
    /\ timers = <<>>
    /\ animatedStats = TargetStats

\* C4: every counter clamps on its 60th tick exactly: on the mounted page a
\* timer callback clears its timer if and only if it is the timer's 60th
\* callback, and then the counter shows its target.
C4_ClampOnTick60 ==
    [][(timerTick /\ phase = "mounted") =>
          /\ (Len(timers') < Len(timers)) <=> (Head(timers).n + 1 = steps)
          /\ (Len(timers') < Len(timers)) =>
                animatedStats'[Head(timers).key] =
                    targets[Head(timers).key]]_vars

\* C5: scrollToSection can be called with every section identifier in every
\* mounted state; it never throws, it leaves the mobile menu closed, and for
\* an identifier without an element it requests no scroll.
C5_ScrollToSection ==
    [][\A id \in SectionIds :
          /\ phase = "mounted" => ENABLED scrollToSection(id)
          /\ scrollToSection(id) =>
                /\ ~crashed'
                /\ isMobileMenuOpen' = FALSE
                /\ id \notin Elements => scrollTarget' = scrollTarget]_vars

\* C5 witness: the last navigation named an identifier without an element;
\* nothing was ever scrolled into view, the menu is closed, nothing threw
C5_Witness ==
    /\ lastNav = "pricing"
    /\ scrollTarget = "none"
    /\ ~isMobileMenuOpen
    /\ ~crashed

\* C6: once a scroll event has been handled, showWhatsApp is true exactly
\* when the offset is strictly above 300 (300 itself gives false); the offsets
\* 0, 150, 320, 280 in that order give false, false, true, false.
C6_ShowWhatsApp ==
    (phase = "mounted" /\ scenarioPos # 0) =>
        /\ showWhatsApp = (scrollY > 300)
        /\ scrollY = 300 => ~showWhatsApp
        /\ scenarioPos > 0 =>
              showWhatsApp = <<FALSE, FALSE, TRUE, FALSE>>[scenarioPos]

\* C6 witness: the four offsets of the scenario have been delivered in order
C6_Witness ==
    /\ scenarioPos = 4
    /\ scrollY = 280
    /\ ~showWhatsApp

\* C7: a toggle from light sets dark and a toggle from dark sets light, so
\* two toggles from light or from dark end at the starting preference.
C7_ToggleFlips ==
    /\ (Len(themeLog) >= 2 /\ themeLog[1] = "light") => themeLog[2] = "dark"
    /\ (Len(themeLog) >= 2 /\ themeLog[1] = "dark") => themeLog[2] = "light"
    /\ (Len(themeLog) = 3 /\ themeLog[1] \in {"light", "dark"}) =>
          themeLog[3] = themeLog[1]

\* C7 witness: light -> dark -> light
C7_Witness == themeLog = <<"light", "dark", "light">>

\* C8: once toggleDarkMode has been called, the preference is light or dark
\* in every later state, whatever events follow.
C8_NeverBackToSystem ==
    Len(themeLog) >= 2 => theme \in {"light", "dark"}

\* C8 witness: the preference was toggled away from system, and since the
\* page was loaded a run of the animation finished, a section was navigated
\* to and scroll events were handled
C8_Witness ==
    /\ themeLog = <<"system", "dark", "light">>
    /\ theme = "light"
    /\ triggered /\ timers = <<>> /\ animatedStats = TargetStats
    /\ lastNav = "contact"
    /\ scenarioPos = -1

\* C9: once all four counters show their targets, no later step of the
\* mounted page changes animatedStats.
C9_InertAfterDone ==
    [][(animatedStats = TargetStats /\ phase' = "mounted") =>
          animatedStats' = animatedStats]_vars

\* C10: after the component is torn down the scroll listener is removed, the
\* observer is disconnected and no interval timer is left alive.
C10_TeardownReleasesAll ==
    phase = "unmounted" =>
        /\ ~scrollListener
        /\ ~observing
        /\ timers = <<>>

\* C11: as long as no observer entry with a visible share of at least the
\* threshold (50%) has been delivered, animateStats has not been called, no
\* timer exists and all four counters are 0.
C11_OnlyFromHalfVisible ==
    ~seenHalf =>
        /\ ~triggered
        /\ timers = <<>>
        /\ animatedStats = InitialStats

\* C12: with timer callbacks delivered fairly every interval timer is
\* eventually cleared: no timer runs more than steps + 1 callbacks, and
\* either animateStats is called again and again or from some point on no
\* timer is alive.
C12_TimersCleared ==
    /\ [](\A i \in 1..Len(timers) : timers[i].n <= steps)
    /\ \/ []<><<Len(timers') > Len(timers)>>_vars
       \/ <>[](timers = <<>>)

\* C12 witness: on the mounted page a single run has been started and all
\* its timers have cleared themselves
C12_Witness ==
    /\ phase = "mounted"
    /\ triggered
    /\ ~overlapped
    /\ timers = <<>>

\* C13: on the mounted page the value a counter with target T displays after
\* the k-th callback of one of its timers, k in 1..60, is floor(k * T / 60).
C13_FloorOfExactShare ==
    [][(timerTick /\ phase = "mounted" /\ Head(timers).n + 1 <= steps) =>
          LET k == Head(timers).n + 1
              T == targets[Head(timers).key]
          IN  animatedStats'[Head(timers).key] = (k * T) \div steps]_vars

\* C14: where the browser does not define IntersectionObserver, running the
\* effects throws nothing and leaves the page mounted with its scroll
\* listener registered and the counters at 0.
C14_MountWithoutObserver ==
    (~observerSupported /\ phase # "rendered") =>
        /\ ~crashed
        /\ phase \in {"mounted", "unmounted"}
        /\ phase = "mounted" => scrollListener
        /\ animatedStats = InitialStats
        /\ timers = <<>>

\* C15: with no navigation in between, after n clicks on the menu button the
\* menu is open exactly when n is odd, whether or not React has rendered
\* between two clicks.
C15_OpenIffOddClicks ==
    phase = "mounted" => isMobileMenuOpen = clicksOdd

\* C16: a scroll event leaves the theme, the menu flag and the counters
\* unchanged; toggleDarkMode leaves the menu flag, showWhatsApp and the
\* counters unchanged; the menu button and scrollToSection leave the theme,
\* showWhatsApp and the counters unchanged; a timer callback for a key leaves
\* the other three counters, the theme, the menu flag and showWhatsApp
\* unchanged.
C16_OwnControllerOnly ==
    [][/\ (\E y \in Offsets : handleScroll(y)) =>
             UNCHANGED <<theme, isMobileMenuOpen, animatedStats>>
       /\ toggleDarkMode =>
             UNCHANGED <<isMobileMenuOpen, showWhatsApp, animatedStats>>
       /\ (toggleMobileMenu \/ \E id \in SectionIds : scrollToSection(id)) =>
             UNCHANGED <<theme, showWhatsApp, animatedStats>>
       /\ timerTick =>
             /\ UNCHANGED <<theme, isMobileMenuOpen, showWhatsApp>>
             /\ \A k \in KeySet \ {Head(timers).key} :
                   animatedStats'[k] = animatedStats[k]]_vars

\* C16 witness: every piece of state differs from its initial value while
\* the timers of a run are alive
C16_Witness ==
    /\ phase = "mounted"
    /\ theme = "dark"
    /\ isMobileMenuOpen
    /\ showWhatsApp
    /\ timers # <<>>
    /\ \A k \in KeySet : animatedStats[k] > 0

\* C17: a copy of the scroll listener that misses any of the scroll events
\* holds the same showWhatsApp as the page whenever the last event it
\* handled carried the offset of the page's last event.
C17_ThrottleInvisible ==
    (phase = "mounted" /\ throttledY = scrollY) =>
        throttledShow = showWhatsApp

\* C17 witness: the page handled the four offsets of the scenario, the copy
\* missed some of them but handled the last
C17_Witness ==
    /\ scenarioPos = 4
    /\ throttleDropped
    /\ throttledY = 280
    /\ throttledShow = showWhatsApp

\* C18: on the mounted page, whatever number of runs were started and
\* however their callbacks interleaved, the counters show 150, 99, 5 and 24
\* once no timer is alive, and a callback for one key never writes another
\* key's counter.
C18_TargetsWhenAllCleared ==
    /\ []((phase = "mounted" /\ triggered /\ timers = <<>>) =>
             animatedStats = TargetStats)
    /\ [][(timerTick /\ phase = "mounted") =>
             \A k \in KeySet : k # Head(timers).key =>
                 animatedStats'[k] = animatedStats[k]]_vars

\* C18 witness: a second run was started while the first was ticking, and
\* all timers of both have cleared
C18_Witness ==
    /\ phase = "mounted"
    /\ overlapped
    /\ timers = <<>>
    /\ animatedStats = TargetStats

\* C19: toggleDarkMode from the preference "system" sets dark whatever the
\* system appearance is, and it sets light only from the preference dark.
C19_FirstToggleSetsDark ==
    [][toggleDarkMode =>
          /\ theme = "system" => theme' = "dark"
          /\ theme' = "light" <=> theme = "dark"]_vars

\* C19 witness: the system appearance is dark, the preference was "system"
\* and one toggle has set it to dark
C19_Witness ==
    /\ systemDark
    /\ themeLog = <<"system", "dark">>

\* C20: from construction until the first scroll event is handled
\* showWhatsApp is false whatever the scroll offset is, and on the mounted
\* page only a scroll event changes it.
C20_FalseUntilFirstScroll ==
    /\ [](scenarioPos = 0 => ~showWhatsApp)
    /\ [][(showWhatsApp' # showWhatsApp /\ phase' = "mounted") =>
             \E y \in Offsets : handleScroll(y)]_vars

\* C20 witness: the page was loaded at offset 320 and a navigation button was
\* clicked, no scroll event has been handled and the button is hidden
C20_Witness ==
    /\ phase = "mounted"
    /\ scrollY = 320
    /\ scenarioPos = 0
    /\ lastNav # "none"
    /\ ~showWhatsApp

====
